---- MODULE Spec2Model ----
(***************************************************************************)
(* Grail Meter frontend: the root view component in its iterations.        *)
(*                                                                         *)
(*   Spec            frontend/src/App.jsx, the multi-image root component  *)
(*                   with preview object URLs, camera and Analyze button   *)
(*   SpecSingle      part_001 (its handlers are those of part_004,         *)
(*                   part_005 and part_007): one image, analyzed as soon   *)
(*                   as it is selected                                     *)
(*   SpecFiles       part_000, part_002 (handlers of part_008), part_003   *)
(*                   and part_006: a list of files and an Analyze button   *)
(*   SpecIterations  all of the above, one of them mounted per behaviour   *)
(*   SpecLive        App.jsx with a backend call that eventually settles   *)
(*   SpecRender      the pure rendering code: the iterations of TrendGraph *)
(*                   and the results section (keyword list, trend panel)   *)
(*                   of part_000, part_002 and part_003                    *)
(*                                                                         *)
(* The camera view of App.jsx and part_001 never opens (CameraNeverOpens), *)
(* so stopCamera and captureImage are defined but are not steps of Next.   *)
(*                                                                         *)
(* A handler runs to its next await in one step (the browser runs one task *)
(* at a time and React commits the re-render before the next user event),  *)
(* so one action is one handler segment followed by the re-render.  Every  *)
(* await is a separate step: the promise it waits for is settled by the    *)
(* environment (backend, browser) in an action of its own.                 *)
(***************************************************************************)
EXTENDS Integers, Sequences, FiniteSets, TLC

VARIABLES
    component,          \* which iteration of the root component is mounted
    selectedImages,     \* App.jsx:145  useState([])
    imageUrls,          \* App.jsx:146  useState([])
    currentImageIndex,  \* App.jsx:147  useState(0), 0-based
    loading,            \* App.jsx:148  useState(false)
    error,              \* App.jsx:149  useState(null)
    analysisResult,     \* App.jsx:150  useState(null)
    showCamera,         \* App.jsx:151  useState(false)
    selectedImage,      \* part_001:99  useState(null)
    imageUrl,           \* part_001:100 useState(null), 0 for null
    selectedFiles,      \* part_003:200 useState([])
    env,                \* import.meta.env of the build
    streamRef,          \* App.jsx:153  useRef(null)
    created,            \* browser: created[u] is the File that object URL u was created for
    revoked,            \* browser: the object URLs passed to URL.revokeObjectURL
    cameraPending,      \* startCamera calls suspended at await getUserMedia
    blobPending,        \* captureImage calls suspended at await canvas.toBlob, with their closures
    inflight,           \* analyze calls suspended at await fetch / await response.json()
    requestCount,       \* number of requests handed to fetch
    analyzeActions,     \* number of user actions that trigger an analysis
    lastEvent,          \* the handler segment that ran last
    received,           \* part_003:262 the parsed body of a 2xx response, before it is stored
    trendData,          \* TrendGraph.jsx:13 the trendData prop of a TrendGraph
    rendered            \* what the last render of the component put on screen

vars == <<component, selectedImages, imageUrls, currentImageIndex, loading, error,
          analysisResult, showCamera, selectedImage, imageUrl, selectedFiles, env, streamRef,
          created, revoked, cameraPending, blobPending, inflight, requestCount, analyzeActions,
          lastEvent, received, trendData, rendered>>

\* the state of the rendering steps
renderVars == <<received, trendData, rendered>>

\* the state of the iterations other than App.jsx
otherVars == <<selectedImage, imageUrl, selectedFiles, env>>

\* the state only App.jsx has
appVars == <<selectedImages, imageUrls, currentImageIndex>>

----------------------------------------------------------------------------
(* Bounds of the model *)

MaxImages == 2          \* longest selection
MaxBatch == 2           \* most files in one file selection
MaxUrls == 3            \* object URLs created in a session
MaxRequests == 2        \* requests sent in a session
MaxCameraCalls == 1     \* getUserMedia calls pending at once
MaxPoints == 2          \* longest trend series
MaxKeywords == 3        \* longest seo_keywords list

----------------------------------------------------------------------------
(* Values *)

\* null of a useState(null) error
ErrNull == "<null>"

\* JSON values: null, or an object with the set of properties it has and the
\* values of its string-valued properties
JNull == [kind |-> "null"]
JObject(fs) == [kind |-> "object", fields |-> fs, str |-> <<>>]
JObjectWith(strs) == [kind |-> "object", fields |-> DOMAIN strs, str |-> strs]
JInvalid == [kind |-> "invalid"]

\* value.name for an object: a string, or undefined
Undefined == "<undefined>"

\* no response body is waiting to be stored; nothing has been rendered
NoResult == [kind |-> "none"]
NotRendered == [kind |-> "none"]

\* JavaScript values passed to the rendering code
JUndefined == [kind |-> "undefined"]
JNumber(n) == [kind |-> "number", n |-> n]
JString(s) == [kind |-> "string", s |-> s]
JArray(items) == [kind |-> "array", items |-> items]
Prop(v, name) == IF name \in DOMAIN v.str THEN v.str[name] ELSE Undefined

\* JavaScript truthiness of a JSON value held in state
Truthy(v) == v.kind = "object"

\* MIME types, as character sequences
TypeJpeg == <<"i","m","a","g","e","/","j","p","e","g">>
TypePng == <<"i","m","a","g","e","/","p","n","g">>

TypeText == <<"t","e","x","t","/","p","l","a","i","n">>
TypeNone == <<>>

\* File objects
FileJpg == [name |-> "front.jpg", type |-> TypeJpeg]
FilePng == [name |-> "label.png", type |-> TypePng]
\* new File([blob], 'camera-capture.jpg', { type: 'image/jpeg' })
CameraFile == [name |-> "camera-capture.jpg", type |-> TypeJpeg]

FileTxt == [name |-> "notes.txt", type |-> TypeText]
NoFile == [name |-> "<null>", type |-> TypeNone]

\* what the dropzone of App.jsx hands to onChange (acceptedFiles image/*)
DropFiles == {FileJpg, FilePng}

\* sequences over S of length lo..hi
SeqsOf(S, lo, hi) == UNION {[1..n -> S] : n \in lo..hi}

\* arr.filter((_, i) => i !== index), index 0-based
RECURSIVE FilterOutIndex(_, _)
FilterOutIndex(arr, index) ==
    IF arr = <<>> THEN <<>>
    ELSE IF index = 0 THEN Tail(arr)
    ELSE <<Head(arr)>> \o FilterOutIndex(Tail(arr), index - 1)

Max(a, b) == IF a >= b THEN a ELSE b

----------------------------------------------------------------------------
(* The backend's answers *)

ResultFields == {"product", "keywords", "longTailKeywords", "ebayListings", "averagePrice"}

TextFull == "{\"product\":{},\"keywords\":[],\"longTailKeywords\":[],\"ebayListings\":[],\"averagePrice\":0}"
TextNoProduct == "{\"keywords\":[],\"longTailKeywords\":[],\"ebayListings\":[],\"averagePrice\":0}"
TextNoKeywords == "{\"product\":{},\"longTailKeywords\":[],\"ebayListings\":[],\"averagePrice\":0}"
TextNoLongTail == "{\"product\":{},\"keywords\":[],\"ebayListings\":[],\"averagePrice\":0}"
TextNoListings == "{\"product\":{},\"keywords\":[],\"longTailKeywords\":[],\"averagePrice\":0}"
TextNoAverage == "{\"product\":{},\"keywords\":[],\"longTailKeywords\":[],\"ebayListings\":[]}"
TextEmptyObject == "{}"
TextNull == "null"
TextEmpty == ""
TextPlain == "Internal Server Error"
TextDetail == "{\"detail\":\"Error processing image\"}"
TextBackendError == "{\"error\":\"true\",\"message\":\"Analysis failed\"}"
TextUnableToFetch == "{\"keywords\":\"Unable to fetch\"}"
TextKeywordResult == "{\"brand\":\"Nike\",\"seo_keywords\":[],\"trend_data\":[]}"

\* JSON.parse, on the response texts of the model
JSONParse(text) ==
    CASE text = TextFull -> JObject(ResultFields)
      [] text = TextNoProduct -> JObject(ResultFields \ {"product"})
      [] text = TextNoKeywords -> JObject(ResultFields \ {"keywords"})
      [] text = TextNoLongTail -> JObject(ResultFields \ {"longTailKeywords"})
      [] text = TextNoListings -> JObject(ResultFields \ {"ebayListings"})
      [] text = TextNoAverage -> JObject(ResultFields \ {"averagePrice"})
      [] text = TextEmptyObject -> JObject({})
      [] text = TextNull -> JNull
      [] text = TextDetail -> JObjectWith("detail" :> "Error processing image")
      [] text = TextBackendError ->
            JObjectWith(("error" :> "true") @@ ("message" :> "Analysis failed"))
      [] text = TextUnableToFetch -> JObjectWith("keywords" :> "Unable to fetch")
      [] text = TextKeywordResult ->
            [kind |-> "object", fields |-> {"brand", "seo_keywords", "trend_data"},
             str |-> ("brand" :> "Nike")]
      [] OTHER -> JInvalid

\* response bodies the backend of App.jsx may send
AppBodies == {TextFull, TextNoProduct, TextNoListings, TextNoAverage, TextPlain}

\* the message of the SyntaxError that JSON.parse / response.json() throws (V8)
ParseErrorMessage(text) ==
    IF text = TextEmpty THEN "Unexpected end of JSON input"
    ELSE "Unexpected token in JSON: " \o text

Statuses == {200, 500}

NoResponse == [status |-> 0, text |-> "<none>"]
Response(status, text) == [status |-> status, text |-> text]

\* response.ok
ResponseOk(resp) == resp.status \in 200..299

\* `${response.status}`
StatusText(status) ==
    CASE status = 200 -> "200" [] status = 500 -> "500" [] OTHER -> "0"

----------------------------------------------------------------------------
(* Requests *)

\* formData.append(name, file)
FormDataAppend(formData, name, file) == Append(formData, <<name, file>>)

\* files.forEach(file => formData.append('files', file))
RECURSIVE AppendFiles(_, _)
AppendFiles(formData, files) ==
    IF files = <<>> THEN formData
    ELSE AppendFiles(FormDataAppend(formData, "files", Head(files)), Tail(files))

AppBaseUrl == "https://grail-meter-production.up.railway.app"

\* fetch(url, {method, body}); selection is the selection on screen at the click
Request(base, path, method, body, selection) ==
    [base |-> base, path |-> path, method |-> method, body |-> body, selection |-> selection]

Event(op, resp) == [op |-> op, resp |-> resp]

\* import.meta.env: PROD, and VITE_API_URL when the build sets it
Env(prod, viteApiUrl) == [PROD |-> prod, VITE_API_URL |-> viteApiUrl]
DefaultEnv == Env(TRUE, Undefined)

\* the builds: production or development, with VITE_API_URL set or not
Envs == {Env(prod, url) : prod \in BOOLEAN, url \in {Undefined, "https://api.example.com"}}

----------------------------------------------------------------------------
(* frontend/src/App.jsx: what is on screen *)

MsgSelectOne == "Please select at least one image to analyze"
MsgFailedAnalyze == "Failed to analyze images. Please try again."
MsgCamera == "Unable to access camera. Please check permissions."
MsgCapture == "Failed to capture image. Please try again."
MsgAnalyze == "Error analyzing image. Please try again."

\* {!showCamera && ( dropzone, Take Photo ...
ControlsShown == ~showCamera

\* the preview area without the !analysisResult test of line 327
PreviewAreaShownAfterResult ==
    ControlsShown /\ Len(selectedImages) > 0 /\ ~loading

\* the preview area without the !loading test
PreviewAreaShownWhileLoading ==
    ControlsShown /\ Len(selectedImages) > 0 /\ ~Truthy(analysisResult)

\* {selectedImages.length > 0 && !loading && !analysisResult && ( previews, Analyze
PreviewAreaShown ==
    ControlsShown /\ Len(selectedImages) > 0 /\ ~loading /\ ~Truthy(analysisResult)

\* {showCamera && ( close, <video ref={videoRef}>, Capture
CameraViewShown == showCamera

\* videoRef.current: the <video> element exists only while the camera view is rendered
VideoRefCurrent == IF CameraViewShown THEN "video" ELSE "null"

\* {selectedImages.length && !loading && analysisResult && ( results grid
ResultsViewShown == Len(selectedImages) # 0 /\ ~loading /\ Truthy(analysisResult)

\* the results grid: which property reads throw for the result r
RenderResults(r) ==
    LET product == IF "product" \in r.fields THEN "entries" ELSE "skipped"
        keywords == IF "keywords" \in r.fields THEN "chips" ELSE "skipped"
        longTail == IF "longTailKeywords" \in r.fields THEN "chips" ELSE "skipped"
        listings == IF "ebayListings" \in r.fields THEN "list" ELSE "TypeError"
        average == IF "averagePrice" \in r.fields THEN "toFixed" ELSE "TypeError"
    IN  IF "TypeError" \in {product, keywords, longTail, listings, average}
        THEN "TypeError" ELSE "rendered"

\* a render that throws unmounts the component tree: nothing is on screen any more
RenderThrows == ResultsViewShown /\ RenderResults(analysisResult) = "TypeError"

Mounted == component = "App.jsx" /\ ~RenderThrows

----------------------------------------------------------------------------
(* frontend/src/App.jsx: handlers *)

\* the URLs of a batch listed in reverse order of its files
NewUrlsReversed(files) == [i \in 1..Len(files) |-> Len(created) + Len(files) + 1 - i]

\* files.map(file => URL.createObjectURL(file)): the URLs are the next free ones
NewUrls(files) == [i \in 1..Len(files) |-> Len(created) + i]

handleImageChange(files) ==
    /\ Mounted /\ ControlsShown
    /\ Len(selectedImages) + Len(files) <= MaxImages
    /\ Len(created) + Len(files) <= MaxUrls
    /\ IF Len(files) > 0
       THEN /\ selectedImages' = selectedImages \o files
            /\ created' = created \o files
            /\ imageUrls' = imageUrls \o NewUrls(files)
       ELSE UNCHANGED <<selectedImages, created, imageUrls>>
    /\ lastEvent' = Event("handleImageChange", NoResponse)
    /\ UNCHANGED <<component, renderVars, otherVars, currentImageIndex, loading, error, analysisResult, showCamera,
                   streamRef, revoked, cameraPending, blobPending, inflight, requestCount,
                   analyzeActions>>

\* a remove that forgets URL.revokeObjectURL
handleRemoveImageNoRevoke(index) ==
    /\ Mounted /\ PreviewAreaShown
    /\ index \in 0..(Len(imageUrls) - 1)
    /\ LET newImages == FilterOutIndex(selectedImages, index)
           newUrls == FilterOutIndex(imageUrls, index)
       IN  /\ selectedImages' = newImages
           /\ imageUrls' = newUrls
           /\ currentImageIndex' =
                 IF currentImageIndex >= Len(newImages)
                 THEN Max(0, Len(newImages) - 1)
                 ELSE currentImageIndex
    /\ lastEvent' = Event("handleRemoveImage", NoResponse)
    /\ UNCHANGED <<component, renderVars, otherVars, loading, error, analysisResult, showCamera, streamRef,
                   created, revoked, cameraPending, blobPending, inflight, requestCount,
                   analyzeActions>>

handleRemoveImage(index) ==
    /\ Mounted /\ PreviewAreaShown
    /\ index \in 0..(Len(imageUrls) - 1)
    /\ LET newImages == FilterOutIndex(selectedImages, index)
           newUrls == FilterOutIndex(imageUrls, index)
       IN  /\ revoked' = revoked \cup {imageUrls[index + 1]}
           /\ selectedImages' = newImages
           /\ imageUrls' = newUrls
           /\ currentImageIndex' =
                 IF currentImageIndex >= Len(newImages)
                 THEN Max(0, Len(newImages) - 1)
                 ELSE currentImageIndex
    /\ lastEvent' = Event("handleRemoveImage", NoResponse)
    /\ UNCHANGED <<component, renderVars, otherVars, loading, error, analysisResult, showCamera, streamRef, created,
                   cameraPending, blobPending, inflight, requestCount, analyzeActions>>

\* analyzeImages(files) up to await fetch
analyzeImagesRequest(files) ==
    Request(AppBaseUrl, "/analyze", "POST", AppendFiles(<<>>, files), selectedImages)

handleAnalyzeImages ==
    /\ Mounted /\ PreviewAreaShown
    /\ requestCount < MaxRequests
    /\ analyzeActions' = analyzeActions + 1
    /\ IF Len(selectedImages) = 0
       THEN /\ error' = MsgSelectOne
            /\ UNCHANGED <<loading, inflight, requestCount>>
       ELSE /\ loading' = TRUE
            /\ error' = ErrNull
            /\ inflight' = Append(inflight, [req |-> analyzeImagesRequest(selectedImages),
                                             stage |-> "fetch", status |-> 0])
            /\ requestCount' = requestCount + 1
    /\ lastEvent' = Event("handleAnalyzeImages", NoResponse)
    /\ UNCHANGED <<component, renderVars, otherVars, selectedImages, imageUrls, currentImageIndex, analysisResult,
                   showCamera, streamRef, created, revoked, cameraPending, blobPending>>

\* inflight without its i-th entry
Settled(i) == SubSeq(inflight, 1, i - 1) \o SubSeq(inflight, i + 1, Len(inflight))

\* a catch that shows err.message instead of the fixed message
analyzeImagesCatchErrMessage(i, resp) ==
    /\ error' = IF resp = NoResponse THEN "Failed to fetch"
                ELSE IF ~ResponseOk(resp) THEN "Failed to analyze image"
                ELSE ParseErrorMessage(resp.text)
    /\ loading' = FALSE
    /\ inflight' = Settled(i)
    /\ lastEvent' = Event("analyzeImagesCatch", resp)
    /\ UNCHANGED analysisResult

\* a catch without the finally: the error is set and loading stays true
analyzeImagesCatchKeepsLoading(i, resp) ==
    /\ error' = MsgAnalyze
    /\ inflight' = Settled(i)
    /\ lastEvent' = Event("analyzeImagesCatch", resp)
    /\ UNCHANGED <<loading, analysisResult>>

\* catch (err) { setError(...) } finally { setLoading(false) }, then setLoading(false)
\* of handleAnalyzeImages
analyzeImagesCatch(i, resp) ==
    /\ error' = MsgAnalyze
    /\ loading' = FALSE
    /\ inflight' = Settled(i)
    /\ lastEvent' = Event("analyzeImagesCatch", resp)
    /\ UNCHANGED analysisResult

\* a rejected fetch that is sent again
analyzeImagesFetchRejectedRetry(i) ==
    /\ Mounted
    /\ i \in 1..Len(inflight) /\ inflight[i].stage = "fetch"
    /\ requestCount <= MaxRequests
    /\ requestCount' = requestCount + 1
    /\ lastEvent' = Event("analyzeImagesRetry", NoResponse)
    /\ UNCHANGED <<component, renderVars, otherVars, appVars, loading, error, analysisResult, showCamera,
                   streamRef, created, revoked, cameraPending, blobPending, inflight,
                   analyzeActions>>

\* fetch rejects: network failure
analyzeImagesFetchRejected(i) ==
    /\ Mounted
    /\ i \in 1..Len(inflight) /\ inflight[i].stage = "fetch"
    /\ analyzeImagesCatch(i, NoResponse)
    /\ UNCHANGED <<component, renderVars, otherVars, selectedImages, imageUrls, currentImageIndex, showCamera,
                   streamRef, created, revoked, cameraPending, blobPending, requestCount,
                   analyzeActions>>

\* a response handler that clears loading as soon as the status line has arrived
analyzeImagesResponseClearsLoading(i, status) ==
    /\ Mounted
    /\ i \in 1..Len(inflight) /\ inflight[i].stage = "fetch"
    /\ IF ~ResponseOk(Response(status, TextEmpty))
       THEN analyzeImagesCatch(i, Response(status, TextEmpty))
       ELSE /\ inflight' = [inflight EXCEPT ![i].stage = "json", ![i].status = status]
            /\ lastEvent' = Event("analyzeImagesResponse", NoResponse)
            /\ loading' = FALSE
            /\ UNCHANGED <<error, analysisResult>>
    /\ UNCHANGED <<component, renderVars, otherVars, selectedImages, imageUrls, currentImageIndex, showCamera,
                   streamRef, created, revoked, cameraPending, blobPending, requestCount,
                   analyzeActions>>

\* fetch resolves with a response: if (!response.ok) throw, else await response.json()
analyzeImagesResponse(i, status) ==
    /\ Mounted
    /\ i \in 1..Len(inflight) /\ inflight[i].stage = "fetch"
    /\ IF ~ResponseOk(Response(status, TextEmpty))
       THEN analyzeImagesCatch(i, Response(status, TextEmpty))
       ELSE /\ inflight' = [inflight EXCEPT ![i].stage = "json", ![i].status = status]
            /\ lastEvent' = Event("analyzeImagesResponse", NoResponse)
            /\ UNCHANGED <<error, loading, analysisResult>>
    /\ UNCHANGED <<component, renderVars, otherVars, selectedImages, imageUrls, currentImageIndex, showCamera,
                   streamRef, created, revoked, cameraPending, blobPending, requestCount,
                   analyzeActions>>

\* a success path that stores the result without clearing loading
analyzeImagesJsonKeepsLoading(i, text) ==
    /\ Mounted
    /\ i \in 1..Len(inflight) /\ inflight[i].stage = "json"
    /\ LET resp == Response(inflight[i].status, text)
           result == JSONParse(resp.text)
       IN  IF result = JInvalid
           THEN analyzeImagesCatch(i, resp)
           ELSE /\ analysisResult' = result
                /\ inflight' = Settled(i)
                /\ lastEvent' = Event("analyzeImagesResult", NoResponse)
                /\ UNCHANGED <<error, loading>>
    /\ UNCHANGED <<component, renderVars, otherVars, selectedImages, imageUrls, currentImageIndex, showCamera,
                   streamRef, created, revoked, cameraPending, blobPending, requestCount,
                   analyzeActions>>

\* response.json() settles: setAnalysisResult(result), or the catch on a parse failure
analyzeImagesJson(i, text) ==
    /\ Mounted
    /\ i \in 1..Len(inflight) /\ inflight[i].stage = "json"
    /\ LET resp == Response(inflight[i].status, text)
           result == JSONParse(resp.text)
       IN  IF result = JInvalid
           THEN analyzeImagesCatch(i, resp)
           ELSE /\ analysisResult' = result
                /\ loading' = FALSE
                /\ inflight' = Settled(i)
                /\ lastEvent' = Event("analyzeImagesResult", NoResponse)
                /\ UNCHANGED error
    /\ UNCHANGED <<component, renderVars, otherVars, selectedImages, imageUrls, currentImageIndex, showCamera,
                   streamRef, created, revoked, cameraPending, blobPending, requestCount,
                   analyzeActions>>

\* Take Photo, up to await getUserMedia
startCamera ==
    /\ Mounted /\ ControlsShown
    /\ cameraPending < MaxCameraCalls
    /\ cameraPending' = cameraPending + 1
    /\ lastEvent' = Event("startCamera", NoResponse)
    /\ UNCHANGED <<component, renderVars, otherVars, selectedImages, imageUrls, currentImageIndex, loading, error,
                   analysisResult, showCamera, streamRef, created, revoked, blobPending,
                   inflight, requestCount, analyzeActions>>

\* getUserMedia resolves with a stream: videoRef.current.srcObject = stream throws when
\* videoRef.current is null and the catch sets the error
startCameraGranted ==
    /\ Mounted
    /\ cameraPending > 0
    /\ cameraPending' = cameraPending - 1
    /\ IF VideoRefCurrent = "null"
       THEN /\ error' = MsgCamera
            /\ UNCHANGED <<streamRef, showCamera>>
       ELSE /\ streamRef' = "stream"
            /\ showCamera' = TRUE
            /\ UNCHANGED error
    /\ lastEvent' = Event("startCameraGranted", NoResponse)
    /\ UNCHANGED <<component, renderVars, otherVars, selectedImages, imageUrls, currentImageIndex, loading,
                   analysisResult, created, revoked, blobPending, inflight, requestCount,
                   analyzeActions>>

\* a catch that shows err.message of the rejected getUserMedia
startCameraDeniedErrMessage ==
    /\ Mounted
    /\ cameraPending > 0
    /\ cameraPending' = cameraPending - 1
    /\ error' = "Permission denied"
    /\ lastEvent' = Event("startCameraDenied", NoResponse)
    /\ UNCHANGED <<component, renderVars, otherVars, selectedImages, imageUrls, currentImageIndex, loading,
                   analysisResult, showCamera, streamRef, created, revoked, blobPending,
                   inflight, requestCount, analyzeActions>>

\* getUserMedia rejects: permission denied or no camera
startCameraDenied ==
    /\ Mounted
    /\ cameraPending > 0
    /\ cameraPending' = cameraPending - 1
    /\ error' = MsgCamera
    /\ lastEvent' = Event("startCameraDenied", NoResponse)
    /\ UNCHANGED <<component, renderVars, otherVars, selectedImages, imageUrls, currentImageIndex, loading,
                   analysisResult, showCamera, streamRef, created, revoked, blobPending,
                   inflight, requestCount, analyzeActions>>

\* the close button of the camera view
stopCamera ==
    /\ Mounted /\ CameraViewShown
    /\ streamRef' = "null"
    /\ showCamera' = FALSE
    /\ lastEvent' = Event("stopCamera", NoResponse)
    /\ UNCHANGED <<component, renderVars, otherVars, selectedImages, imageUrls, currentImageIndex, loading, error,
                   analysisResult, created, revoked, cameraPending, blobPending, inflight,
                   requestCount, analyzeActions>>

\* Capture, up to await canvas.toBlob; the continuation keeps this render's
\* selectedImages and imageUrls
captureImage ==
    /\ Mounted /\ CameraViewShown
    /\ blobPending' = Append(blobPending, [selectedImages |-> selectedImages,
                                           imageUrls |-> imageUrls])
    /\ lastEvent' = Event("captureImage", NoResponse)
    /\ UNCHANGED <<component, renderVars, otherVars, selectedImages, imageUrls, currentImageIndex, loading, error,
                   analysisResult, showCamera, streamRef, created, revoked, cameraPending,
                   inflight, requestCount, analyzeActions>>

\* toBlob calls back: the file and its URL are appended to the captured arrays
captureImageBlob(i) ==
    /\ Mounted
    /\ i \in 1..Len(blobPending)
    /\ Len(created) < MaxUrls
    /\ selectedImages' = Append(blobPending[i].selectedImages, CameraFile)
    /\ created' = Append(created, CameraFile)
    /\ imageUrls' = Append(blobPending[i].imageUrls, Len(created) + 1)
    /\ streamRef' = "null"
    /\ showCamera' = FALSE
    /\ blobPending' = SubSeq(blobPending, 1, i - 1) \o SubSeq(blobPending, i + 1, Len(blobPending))
    /\ lastEvent' = Event("captureImageBlob", NoResponse)
    /\ UNCHANGED <<component, renderVars, otherVars, currentImageIndex, loading, error, analysisResult, revoked,
                   cameraPending, inflight, requestCount, analyzeActions>>

\* a Next button that is also offered in the preview area, before any analysis
handleNextImageInPreview ==
    /\ Mounted /\ (ResultsViewShown \/ PreviewAreaShown) /\ Len(imageUrls) > 1
    /\ currentImageIndex' = (currentImageIndex + 1) % Len(imageUrls)
    /\ lastEvent' = Event("handleNextImage", NoResponse)
    /\ UNCHANGED <<component, renderVars, otherVars, selectedImages, imageUrls, loading, error, analysisResult,
                   showCamera, streamRef, created, revoked, cameraPending, blobPending,
                   inflight, requestCount, analyzeActions>>

handleNextImage ==
    /\ Mounted /\ ResultsViewShown /\ Len(imageUrls) > 1
    /\ currentImageIndex' = (currentImageIndex + 1) % Len(imageUrls)
    /\ lastEvent' = Event("handleNextImage", NoResponse)
    /\ UNCHANGED <<component, renderVars, otherVars, selectedImages, imageUrls, loading, error, analysisResult,
                   showCamera, streamRef, created, revoked, cameraPending, blobPending,
                   inflight, requestCount, analyzeActions>>

\* a Prev that does not wrap around
handlePrevImageNoWrap ==
    /\ Mounted /\ ResultsViewShown /\ Len(imageUrls) > 1
    /\ currentImageIndex' = currentImageIndex - 1
    /\ lastEvent' = Event("handlePrevImage", NoResponse)
    /\ UNCHANGED <<component, renderVars, otherVars, selectedImages, imageUrls, loading, error, analysisResult,
                   showCamera, streamRef, created, revoked, cameraPending, blobPending,
                   inflight, requestCount, analyzeActions>>

handlePrevImage ==
    /\ Mounted /\ ResultsViewShown /\ Len(imageUrls) > 1
    /\ currentImageIndex' = (currentImageIndex - 1 + Len(imageUrls)) % Len(imageUrls)
    /\ lastEvent' = Event("handlePrevImage", NoResponse)
    /\ UNCHANGED <<component, renderVars, otherVars, selectedImages, imageUrls, loading, error, analysisResult,
                   showCamera, streamRef, created, revoked, cameraPending, blobPending,
                   inflight, requestCount, analyzeActions>>

----------------------------------------------------------------------------
(* unnamed/part_001 (its handlers are those of part_004, part_005 and part_007):   *)
(* the single-image root component, which analyzes as soon as an image is chosen *)

\* {!selectedImage && !showCamera && ( dropzone, Take Photo
ControlsShownSingle == selectedImage = NoFile /\ ~showCamera

MountedSingle == component = "part_001"

\* analyzeImage(file) up to await fetch: formData.append('file', file)
analyzeImageRequest(file) ==
    Request(AppBaseUrl, "/analyze", "POST", FormDataAppend(<<>>, "file", file), <<file>>)

\* setLoading(true); setError(null); ... await fetch
analyzeImage(file) ==
    /\ loading' = TRUE
    /\ error' = ErrNull
    /\ inflight' = Append(inflight, [req |-> analyzeImageRequest(file), stage |-> "fetch",
                                     status |-> 0])
    /\ requestCount' = requestCount + 1

\* DropzoneArea onChange
handleImageChangeSingle(files) ==
    /\ MountedSingle /\ ControlsShownSingle
    /\ requestCount < MaxRequests /\ Len(created) < MaxUrls
    /\ IF Len(files) > 0
       THEN /\ selectedImage' = files[1]
            /\ created' = Append(created, files[1])
            /\ imageUrl' = Len(created) + 1
            /\ analyzeImage(files[1])
            /\ analyzeActions' = analyzeActions + 1
       ELSE UNCHANGED <<selectedImage, created, imageUrl, loading, error, inflight, requestCount,
                        analyzeActions>>
    /\ lastEvent' = Event("handleImageChange", NoResponse)
    /\ UNCHANGED <<component, renderVars, appVars, selectedFiles, env, analysisResult, showCamera, streamRef,
                   revoked, cameraPending, blobPending>>

\* catch (err) { setError(...) } finally { setLoading(false) }
analyzeImageCatch(i, resp) ==
    /\ error' = MsgAnalyze
    /\ loading' = FALSE
    /\ inflight' = Settled(i)
    /\ lastEvent' = Event("analyzeImageCatch", resp)
    /\ UNCHANGED analysisResult

analyzeImageFetchRejected(i) ==
    /\ MountedSingle
    /\ i \in 1..Len(inflight) /\ inflight[i].stage = "fetch"
    /\ analyzeImageCatch(i, NoResponse)
    /\ UNCHANGED <<component, renderVars, appVars, otherVars, showCamera, streamRef, created, revoked,
                   cameraPending, blobPending, requestCount, analyzeActions>>

analyzeImageResponse(i, status) ==
    /\ MountedSingle
    /\ i \in 1..Len(inflight) /\ inflight[i].stage = "fetch"
    /\ IF ~ResponseOk(Response(status, TextEmpty))
       THEN analyzeImageCatch(i, Response(status, TextEmpty))
       ELSE /\ inflight' = [inflight EXCEPT ![i].stage = "json", ![i].status = status]
            /\ lastEvent' = Event("analyzeImageResponse", NoResponse)
            /\ UNCHANGED <<error, loading, analysisResult>>
    /\ UNCHANGED <<component, renderVars, appVars, otherVars, showCamera, streamRef, created, revoked,
                   cameraPending, blobPending, requestCount, analyzeActions>>

analyzeImageJson(i, text) ==
    /\ MountedSingle
    /\ i \in 1..Len(inflight) /\ inflight[i].stage = "json"
    /\ LET resp == Response(inflight[i].status, text)
           result == JSONParse(resp.text)
       IN  IF result = JInvalid
           THEN analyzeImageCatch(i, resp)
           ELSE /\ analysisResult' = result
                /\ loading' = FALSE
                /\ inflight' = Settled(i)
                /\ lastEvent' = Event("analyzeImageResult", NoResponse)
                /\ UNCHANGED error
    /\ UNCHANGED <<component, renderVars, appVars, otherVars, showCamera, streamRef, created, revoked,
                   cameraPending, blobPending, requestCount, analyzeActions>>

startCameraSingle ==
    /\ MountedSingle /\ ControlsShownSingle
    /\ cameraPending < MaxCameraCalls
    /\ cameraPending' = cameraPending + 1
    /\ lastEvent' = Event("startCamera", NoResponse)
    /\ UNCHANGED <<component, renderVars, appVars, otherVars, loading, error, analysisResult, showCamera,
                   streamRef, created, revoked, blobPending, inflight, requestCount, analyzeActions>>

startCameraGrantedSingle ==
    /\ MountedSingle
    /\ cameraPending > 0
    /\ cameraPending' = cameraPending - 1
    /\ IF VideoRefCurrent = "null"
       THEN /\ error' = MsgCamera
            /\ UNCHANGED <<streamRef, showCamera>>
       ELSE /\ streamRef' = "stream"
            /\ showCamera' = TRUE
            /\ UNCHANGED error
    /\ lastEvent' = Event("startCameraGranted", NoResponse)
    /\ UNCHANGED <<component, renderVars, appVars, otherVars, loading, analysisResult, created, revoked,
                   blobPending, inflight, requestCount, analyzeActions>>

startCameraDeniedSingle ==
    /\ MountedSingle
    /\ cameraPending > 0
    /\ cameraPending' = cameraPending - 1
    /\ error' = MsgCamera
    /\ lastEvent' = Event("startCameraDenied", NoResponse)
    /\ UNCHANGED <<component, renderVars, appVars, otherVars, loading, analysisResult, showCamera,
                   streamRef, created, revoked, blobPending, inflight, requestCount, analyzeActions>>

stopCameraSingle ==
    /\ MountedSingle /\ CameraViewShown
    /\ streamRef' = "null"
    /\ showCamera' = FALSE
    /\ lastEvent' = Event("stopCamera", NoResponse)
    /\ UNCHANGED <<component, renderVars, appVars, otherVars, loading, error, analysisResult, created,
                   revoked, cameraPending, blobPending, inflight, requestCount, analyzeActions>>

\* Capture, up to await canvas.toBlob
captureImageSingle ==
    /\ MountedSingle /\ CameraViewShown
    /\ blobPending' = Append(blobPending, [selectedImages |-> <<>>, imageUrls |-> <<>>])
    /\ lastEvent' = Event("captureImage", NoResponse)
    /\ UNCHANGED <<component, renderVars, appVars, otherVars, loading, error, analysisResult, showCamera,
                   streamRef, created, revoked, cameraPending, inflight, requestCount, analyzeActions>>

\* toBlob calls back: setSelectedImage, setImageUrl, stopCamera, analyzeImage(file)
captureImageBlobSingle(i) ==
    /\ MountedSingle
    /\ i \in 1..Len(blobPending)
    /\ requestCount < MaxRequests /\ Len(created) < MaxUrls
    /\ analyzeActions' = analyzeActions + 1
    /\ selectedImage' = CameraFile
    /\ created' = Append(created, CameraFile)
    /\ imageUrl' = Len(created) + 1
    /\ streamRef' = "null"
    /\ showCamera' = FALSE
    /\ analyzeImage(CameraFile)
    /\ blobPending' = SubSeq(blobPending, 1, i - 1) \o SubSeq(blobPending, i + 1, Len(blobPending))
    /\ lastEvent' = Event("captureImageBlob", NoResponse)
    /\ UNCHANGED <<component, renderVars, appVars, selectedFiles, env, analysisResult, revoked, cameraPending>>

NextSingle ==
    \/ \E files \in SeqsOf(DropFiles, 0, MaxBatch) : handleImageChangeSingle(files)
    \/ \E i \in 1..MaxRequests : analyzeImageFetchRejected(i)
    \/ \E i \in 1..MaxRequests, status \in Statuses : analyzeImageResponse(i, status)
    \/ \E i \in 1..MaxRequests, text \in AppBodies : analyzeImageJson(i, text)
    \/ startCameraSingle
    \/ startCameraGrantedSingle
    \/ startCameraDeniedSingle

----------------------------------------------------------------------------
(* unnamed/part_000, part_002 (its handlers are those of part_008), part_003 and   *)
(* part_006: the file-list root component.  Its results section is modelled      *)
(* further down, apart from the handlers.                                         *)

FileIterations == {"part_000", "part_002", "part_003", "part_006"}

MsgInvalidType == "Please select valid image files (JPG, PNG, GIF)"
MsgSelectOneShort == "Please select at least one image"
MsgFailedImages == "Failed to analyze images"
MsgDefault == "An error occurred during analysis"
MsgInvalidFormat == "Invalid response format from server"
MsgInvalidResponse == "Invalid response from server"
MsgUnable == "Unable to fetch keyword data. Please try again."
\* err.message of the TypeError a rejected fetch carries
MsgFetchFailed == "Failed to fetch"
\* err.message of the TypeError of result.detail / result.error on null
MsgNullDetail == "Cannot read properties of null (reading 'detail')"
MsgNullError == "Cannot read properties of null (reading 'error')"

MountedFiles == component \in FileIterations

\* what a file input or a drop can deliver: the accept attribute does not bind the user
PickFiles == {FileJpg, FilePng, FileTxt}

\* str.startsWith(prefix)
StartsWith(str, prefix) ==
    Len(str) >= Len(prefix) /\ SubSeq(str, 1, Len(prefix)) = prefix

ImagePrefix == <<"i","m","a","g","e","/">>

\* files.filter(file => file.type.startsWith('image/'))
RECURSIVE ValidFiles(_)
ValidFiles(files) ==
    IF files = <<>> THEN <<>>
    ELSE IF StartsWith(Head(files).type, ImagePrefix)
         THEN <<Head(files)>> \o ValidFiles(Tail(files))
         ELSE ValidFiles(Tail(files))

\* part_000, part_002, part_003: the file input's onChange
handleFileSelect(files) ==
    /\ component \in {"part_000", "part_002", "part_003"}
    /\ Len(selectedFiles) + Len(files) <= MaxImages
    /\ IF Len(files) > 0
       THEN IF Len(ValidFiles(files)) = 0
            THEN /\ error' = MsgInvalidType
                 /\ UNCHANGED selectedFiles
            ELSE /\ selectedFiles' = selectedFiles \o ValidFiles(files)
                 /\ UNCHANGED error
       ELSE UNCHANGED <<error, selectedFiles>>
    /\ lastEvent' = Event("handleFileSelect", NoResponse)
    /\ UNCHANGED <<component, renderVars, appVars, selectedImage, imageUrl, env, loading, analysisResult,
                   showCamera, streamRef, created, revoked, cameraPending, blobPending,
                   inflight, requestCount, analyzeActions>>

\* part_006: the file input's onChange replaces the selection
handleFileSelectReplace(files) ==
    /\ component = "part_006"
    /\ Len(files) <= MaxImages
    /\ selectedFiles' = files
    /\ error' = ErrNull
    /\ lastEvent' = Event("handleFileSelect", NoResponse)
    /\ UNCHANGED <<component, renderVars, appVars, selectedImage, imageUrl, env, loading, analysisResult,
                   showCamera, streamRef, created, revoked, cameraPending, blobPending,
                   inflight, requestCount, analyzeActions>>

\* part_006: onDrop of the paper
handleDrop(files) ==
    /\ component = "part_006"
    /\ Len(files) <= MaxImages
    /\ selectedFiles' = files
    /\ error' = ErrNull
    /\ lastEvent' = Event("handleDrop", NoResponse)
    /\ UNCHANGED <<component, renderVars, appVars, selectedImage, imageUrl, env, loading, analysisResult,
                   showCamera, streamRef, created, revoked, cameraPending, blobPending,
                   inflight, requestCount, analyzeActions>>

\* the remove button of a preview (part_006: onDelete of a chip)
handleRemoveImageFiles(index) ==
    /\ MountedFiles
    /\ index \in 0..(Len(selectedFiles) - 1)
    /\ selectedFiles' = FilterOutIndex(selectedFiles, index)
    /\ lastEvent' = Event("handleRemoveImage", NoResponse)
    /\ UNCHANGED <<component, renderVars, appVars, selectedImage, imageUrl, env, loading, error,
                   analysisResult, showCamera, streamRef, created, revoked, cameraPending,
                   blobPending, inflight, requestCount, analyzeActions>>

\* onClick={() => setError(null)} of the alert (part_002, part_003)
dismissError ==
    /\ component \in {"part_002", "part_003"}
    /\ error # ErrNull
    /\ error' = ErrNull
    /\ lastEvent' = Event("dismissError", NoResponse)
    /\ UNCHANGED <<component, renderVars, appVars, otherVars, loading, analysisResult, showCamera,
                   streamRef, created, revoked, cameraPending, blobPending, inflight, requestCount,
                   analyzeActions>>

LocalUrl == "http://localhost:8000"

\* API_URL of the iteration c in the build environment e
ApiUrl(c, e) ==
    CASE c = "part_000" -> LocalUrl
      [] c = "part_006" -> LocalUrl
      [] c = "part_002" -> IF e.PROD THEN AppBaseUrl ELSE LocalUrl
      [] c = "part_003" ->
            IF e.VITE_API_URL # Undefined /\ e.VITE_API_URL # ""
            THEN e.VITE_API_URL
            ELSE IF e.PROD THEN AppBaseUrl ELSE LocalUrl

\* the path the iteration c posts to
ApiPath(c) == IF c = "part_006" THEN "/upload" ELSE "/analyze"

handleAnalyzeRequest(c, e, files) ==
    Request(ApiUrl(c, e), ApiPath(c), "POST", AppendFiles(<<>>, files), files)

\* the Analyze button: rendered with a non-empty selection, disabled while loading
handleAnalyze ==
    /\ MountedFiles
    /\ Len(selectedFiles) > 0 /\ ~loading
    /\ requestCount < MaxRequests
    /\ analyzeActions' = analyzeActions + 1
    /\ IF Len(selectedFiles) = 0
       THEN /\ error' = IF component = "part_006" THEN MsgSelectOneShort ELSE MsgSelectOne
            /\ UNCHANGED <<loading, analysisResult, inflight, requestCount>>
       ELSE /\ loading' = TRUE
            /\ error' = ErrNull
            /\ analysisResult' = IF component = "part_000" THEN analysisResult ELSE JNull
            /\ inflight' = Append(inflight,
                                  [req |-> handleAnalyzeRequest(component, env, selectedFiles),
                                   stage |-> "fetch", status |-> 0])
            /\ requestCount' = requestCount + 1
    /\ lastEvent' = Event("handleAnalyze", NoResponse)
    /\ UNCHANGED <<component, renderVars, appVars, otherVars, showCamera, streamRef, created, revoked,
                   cameraPending, blobPending>>

\* what the catch block stores for the thrown message
CatchMessage(c, message) ==
    IF c = "part_006" THEN "Error analyzing images: " \o message
    ELSE IF message = "" THEN MsgDefault ELSE message

\* catch (err) { setError(...); setAnalysisResult(null) } finally { setLoading(false) }
handleAnalyzeCatch(i, message, resp) ==
    /\ error' = CatchMessage(component, message)
    /\ analysisResult' = IF component \in {"part_002", "part_003"} THEN JNull
                         ELSE analysisResult
    /\ loading' = FALSE
    /\ inflight' = Settled(i)
    /\ lastEvent' = Event("handleAnalyzeCatch", resp)

handleAnalyzeFetchRejected(i) ==
    /\ MountedFiles
    /\ i \in 1..Len(inflight) /\ inflight[i].stage = "fetch"
    /\ handleAnalyzeCatch(i, MsgFetchFailed, NoResponse)
    /\ UNCHANGED <<component, renderVars, appVars, otherVars, showCamera, streamRef, created, revoked,
                   cameraPending, blobPending, requestCount, analyzeActions>>

\* fetch resolves: part_000 and part_006 throw on !response.ok, part_002 awaits
\* response.json() and part_003 awaits response.text() whatever the status
handleAnalyzeResponse(i, status) ==
    /\ MountedFiles
    /\ i \in 1..Len(inflight) /\ inflight[i].stage = "fetch"
    /\ IF component \in {"part_000", "part_006"} /\ ~ResponseOk(Response(status, TextEmpty))
       THEN handleAnalyzeCatch(i,
               IF component = "part_000" THEN MsgFailedImages
               ELSE "HTTP error! status: " \o StatusText(status),
               Response(status, TextEmpty))
       ELSE /\ inflight' = [inflight EXCEPT ![i].stage = "body", ![i].status = status]
            /\ lastEvent' = Event("handleAnalyzeResponse", NoResponse)
            /\ UNCHANGED <<error, loading, analysisResult>>
    /\ UNCHANGED <<component, renderVars, appVars, otherVars, showCamera, streamRef, created, revoked,
                   cameraPending, blobPending, requestCount, analyzeActions>>

\* part_003: trend_data is made an array, seo_keywords entries are made strings
NormalizeResult(result) == [result EXCEPT !.fields = @ \cup {"trend_data"}]

Thrown(message) == [kind |-> "throw", message |-> message]
Stored(result) == [kind |-> "result", result |-> result]
Shown(message) == [kind |-> "error", message |-> message]

\* part_000: const result = await response.json(); setAnalysisResult(result)
BodyOutcome000(resp) ==
    LET result == JSONParse(resp.text)
    IN  IF result = JInvalid THEN Thrown(ParseErrorMessage(resp.text))
        ELSE Stored(result)

\* part_002: response.json() first, then the status, then the shape of the result
BodyOutcome002(resp) ==
    LET result == JSONParse(resp.text)
    IN  IF result = JInvalid THEN Thrown(ParseErrorMessage(resp.text))
        ELSE IF ~ResponseOk(resp)
             THEN IF result = JNull THEN Thrown(MsgNullDetail)
                  ELSE IF Prop(result, "detail") = Undefined
                       THEN Thrown(MsgFailedImages)
                       ELSE Thrown(Prop(result, "detail"))
             ELSE IF result = JNull THEN Thrown(MsgInvalidResponse)
                  ELSE Stored(result)

\* part_003: the text of a non-2xx response is thrown, the text of a 2xx response
\* is parsed, checked and normalised
BodyOutcome003(resp) ==
    LET result == JSONParse(resp.text)
    IN  IF ~ResponseOk(resp)
        THEN IF resp.text = "" THEN Thrown(MsgFailedImages) ELSE Thrown(resp.text)
        ELSE IF result = JInvalid THEN Thrown(MsgInvalidFormat)
             ELSE IF result = JNull THEN Thrown(MsgInvalidResponse)
                  ELSE Stored(NormalizeResult(result))

\* part_006: result.error and the "Unable to fetch" keywords are shown as errors
BodyOutcome006(resp) ==
    LET result == JSONParse(resp.text)
    IN  IF result = JInvalid THEN Thrown(ParseErrorMessage(resp.text))
        ELSE IF result = JNull THEN Thrown(MsgNullError)
             ELSE IF Prop(result, "error") # Undefined
                  THEN Shown(IF Prop(result, "message") = Undefined THEN ErrNull
                             ELSE Prop(result, "message"))
                  ELSE IF Prop(result, "keywords") = "Unable to fetch"
                       THEN Shown(MsgUnable)
                       ELSE Stored(result)

\* what the handler of the iteration c does with the body of the response
BodyOutcome(c, resp) ==
    CASE c = "part_000" -> BodyOutcome000(resp)
      [] c = "part_002" -> BodyOutcome002(resp)
      [] c = "part_003" -> BodyOutcome003(resp)
      [] c = "part_006" -> BodyOutcome006(resp)

\* the body arrives: response.json() / response.text() settles and the handler ends
handleAnalyzeBody(i, text) ==
    /\ MountedFiles
    /\ i \in 1..Len(inflight) /\ inflight[i].stage = "body"
    /\ LET resp == Response(inflight[i].status, text)
           outcome == BodyOutcome(component, resp)
       IN  CASE outcome.kind = "throw" ->
                   /\ handleAnalyzeCatch(i, outcome.message, resp)
                   /\ UNCHANGED selectedFiles
             [] outcome.kind = "error" ->
                   /\ error' = outcome.message
                   /\ loading' = FALSE
                   /\ inflight' = Settled(i)
                   /\ lastEvent' = Event("handleAnalyzeError", resp)
                   /\ UNCHANGED <<analysisResult, selectedFiles>>
             [] outcome.kind = "result" ->
                   /\ analysisResult' = outcome.result
                   /\ selectedFiles' = IF component = "part_000" THEN <<>> ELSE selectedFiles
                   /\ loading' = FALSE
                   /\ inflight' = Settled(i)
                   /\ lastEvent' = Event("handleAnalyzeResult", NoResponse)
                   /\ UNCHANGED error
    /\ UNCHANGED <<component, renderVars, appVars, selectedImage, imageUrl, env, showCamera, streamRef,
                   created, revoked, cameraPending, blobPending, requestCount, analyzeActions>>

FilesBodies == {TextKeywordResult, TextDetail, TextBackendError, TextUnableToFetch, TextNull,
                TextEmpty, TextPlain}

NextFiles ==
    \/ \E files \in SeqsOf(PickFiles, 0, MaxBatch) : handleFileSelect(files)
    \/ \E files \in SeqsOf(PickFiles, 0, MaxBatch) : handleFileSelectReplace(files)
    \/ \E files \in SeqsOf(PickFiles, 0, MaxBatch) : handleDrop(files)
    \/ \E index \in 0..(MaxImages - 1) : handleRemoveImageFiles(index)
    \/ dismissError
    \/ handleAnalyze
    \/ \E i \in 1..MaxRequests : handleAnalyzeFetchRejected(i)
    \/ \E i \in 1..MaxRequests, status \in Statuses : handleAnalyzeResponse(i, status)
    \/ \E i \in 1..MaxRequests, text \in FilesBodies : handleAnalyzeBody(i, text)

InitCommon ==
    /\ selectedImages = <<>>
    /\ selectedImage = NoFile
    /\ imageUrl = 0
    /\ selectedFiles = <<>>
    /\ imageUrls = <<>>
    /\ currentImageIndex = 0
    /\ loading = FALSE
    /\ error = ErrNull
    /\ analysisResult = JNull
    /\ showCamera = FALSE
    /\ streamRef = "null"
    /\ created = <<>>
    /\ revoked = {}
    /\ cameraPending = 0
    /\ blobPending = <<>>
    /\ inflight = <<>>
    /\ requestCount = 0
    /\ analyzeActions = 0
    /\ lastEvent = Event("mount", NoResponse)

\* nothing is being rendered apart from the root component itself
InitNoRender == received = NoResult /\ trendData = JUndefined /\ rendered = NotRendered

Init == component = "App.jsx" /\ env \in Envs /\ InitCommon /\ InitNoRender

\* stopCamera, captureImage and captureImageBlob need the camera view, which
\* startCameraGranted never opens (CameraNeverOpens): they are not steps of Next
Next ==
    \/ \E files \in SeqsOf(DropFiles, 0, MaxBatch) : handleImageChange(files)
    \/ \E index \in 0..(MaxImages - 1) : handleRemoveImage(index)
    \/ handleAnalyzeImages
    \/ \E i \in 1..MaxRequests : analyzeImagesFetchRejected(i)
    \/ \E i \in 1..MaxRequests, status \in Statuses : analyzeImagesResponse(i, status)
    \/ \E i \in 1..MaxRequests, text \in AppBodies : analyzeImagesJson(i, text)
    \/ startCamera
    \/ startCameraGranted
    \/ startCameraDenied
    \/ handleNextImage
    \/ handlePrevImage

Spec == Init /\ [][Next]_vars

\* the backend call of App.jsx settles: fetch resolves or rejects
BackendSettles ==
    \/ \E i \in 1..MaxRequests : analyzeImagesFetchRejected(i)
    \/ \E i \in 1..MaxRequests, status \in Statuses : analyzeImagesResponse(i, status)

\* the body of a response is read to its end: response.json() resolves or rejects
BodySettles == \E i \in 1..MaxRequests, text \in AppBodies : analyzeImagesJson(i, text)

\* App.jsx in one build, with a backend call that eventually settles
InitLive == component = "App.jsx" /\ env = DefaultEnv /\ InitCommon /\ InitNoRender
SpecLive == InitLive /\ [][Next]_vars /\ WF_vars(BackendSettles) /\ WF_vars(BodySettles)

InitSingle == component = "part_001" /\ env \in Envs /\ InitCommon /\ InitNoRender
SpecSingle == InitSingle /\ [][NextSingle]_vars

\* part_002 and part_003 read the build environment
InitFiles ==
    /\ component \in FileIterations
    /\ env \in IF component \in {"part_002", "part_003"} THEN Envs ELSE {DefaultEnv}
    /\ InitCommon
    /\ InitNoRender

SpecFiles == InitFiles /\ [][NextFiles]_vars

\* every iteration of the root component
InitIterations == Init \/ InitSingle \/ InitFiles
NextIterations == Next \/ NextSingle \/ NextFiles
SpecIterations == InitIterations /\ [][NextIterations]_vars

CameraNeverOpens == ~showCamera /\ blobPending = <<>> /\ streamRef = "null"

----------------------------------------------------------------------------
(* TrendGraph: frontend/src/components/TrendGraph.jsx holds three iterations of   *)
(* the component (lines 13, 113 and 214), part_009 and part_010 one each, and     *)
(* part_000, part_002, part_003 and part_006 each define their own (chart.js).    *)

TrendGraphGuarded == {"TrendGraph.jsx:13", "TrendGraph.jsx:113", "part_010"}
TrendGraphInline ==
    {"part_000/TrendGraph", "part_002/TrendGraph", "part_003/TrendGraph", "part_006/TrendGraph"}
TrendGraphUnguarded == {"TrendGraph.jsx:214", "part_009"}
TrendGraphIterations == TrendGraphGuarded \cup TrendGraphInline \cup TrendGraphUnguarded

\* a point of a trend series: each property is a number, a string or undefined
Point(date, month, interest, volume) ==
    [date |-> date, month |-> month, interest |-> interest, volume |-> volume]

DateJan == JString("2024-01-15")
DateMar == JString("2024-03-15")

TrendPoints ==
    { Point(DateJan, JUndefined, JNumber(50), JUndefined),
      Point(JUndefined, JString("Feb"), JUndefined, JNumber(30)),
      Point(DateMar, JString("Mar"), JNumber(70), JNumber(20)),
      Point(JUndefined, JUndefined, JString("high"), JNumber(10)),
      Point(DateJan, JUndefined, JUndefined, JUndefined) }

\* the values a parent can pass as trendData
TrendDataValues ==
    {JUndefined, JNull, JString("n/a"), JObject({"error"})}
        \cup {JArray(items) : items \in SeqsOf(TrendPoints, 0, MaxPoints)}

\* !trendData || !Array.isArray(trendData) || trendData.length === 0
NoTrendData(td) == td.kind # "array" \/ Len(td.items) = 0

\* a || b
Or(a, b) == IF a.kind = "undefined" \/ a.kind = "null" \/ a = JString("") \/ a = JNumber(0)
            THEN b ELSE a

\* new Date(date).toLocaleDateString('en-US', { month: 'short', year: 'numeric' })
FormatDate(date) ==
    CASE date = DateJan -> JString("Jan 2024")
      [] date = DateMar -> JString("Mar 2024")
      [] OTHER -> JString("Invalid Date")

\* formattedData with the two typeof tests of lines 41-42 in the other order
FormattedData13VolumeFirst(items) ==
    [i \in 1..Len(items) |->
        [month |-> Or(items[i].date, items[i].month),
         interest |-> IF items[i].volume.kind = "number" THEN items[i].volume
                      ELSE IF items[i].interest.kind = "number" THEN items[i].interest
                      ELSE JNumber(0)]]

\* TrendGraph.jsx:13  formattedData
FormattedData13(items) ==
    [i \in 1..Len(items) |->
        [month |-> Or(items[i].date, items[i].month),
         interest |-> IF items[i].interest.kind = "number" THEN items[i].interest
                      ELSE IF items[i].volume.kind = "number" THEN items[i].volume
                      ELSE JNumber(0)]]

\* TrendGraph.jsx:113  formattedData
FormattedData113(items) ==
    [i \in 1..Len(items) |->
        [date |-> FormatDate(items[i].date),
         volume |-> IF items[i].volume.kind = "number" THEN items[i].volume ELSE JNumber(0)]]

\* part_010  formattedData
FormattedData010(items) ==
    [i \in 1..Len(items) |-> [date |-> FormatDate(items[i].date), volume |-> items[i].volume]]

\* part_000 .. part_006  chartData: labels and the one dataset's data
ChartData(items) ==
    [labels |-> [i \in 1..Len(items) |-> items[i].date],
     data |-> [i \in 1..Len(items) |-> items[i].volume]]

Placeholder == [kind |-> "placeholder", text |-> "No trend data available"]
Chart(data) == [kind |-> "chart", data |-> data]

\* what TrendGraph({ trendData }) returns in iteration c
TrendGraphRender(c, td) ==
    IF c \in TrendGraphUnguarded THEN Chart(td)
    ELSE IF NoTrendData(td) THEN Placeholder
    ELSE CASE c = "TrendGraph.jsx:13" -> Chart(FormattedData13(td.items))
           [] c = "TrendGraph.jsx:113" -> Chart(FormattedData113(td.items))
           [] c = "part_010" -> Chart(FormattedData010(td.items))
           [] OTHER -> Chart(ChartData(td.items))

\* the parent renders <TrendGraph trendData={td} />
TrendGraph(td) ==
    /\ component \in TrendGraphIterations
    /\ trendData' = td
    /\ rendered' = TrendGraphRender(component, td)
    /\ lastEvent' = Event("TrendGraph", NoResponse)
    /\ UNCHANGED <<component, appVars, otherVars, loading, error, analysisResult, showCamera,
                   streamRef, created, revoked, cameraPending, blobPending, inflight,
                   requestCount, analyzeActions, received>>

InitTrendGraph ==
    /\ component \in TrendGraphIterations
    /\ env = DefaultEnv
    /\ InitCommon
    /\ InitNoRender

-----------------------------------------------------------------------------
(* The results section of part_000, part_002 (that of part_008) and part_003:  *)
(* the SEO keyword list and the trend graph of a stored analysisResult.        *)
(* Array.prototype.sort is taken to be stable (ECMAScript 2019).               *)

ResultsIterations == {"part_000", "part_002", "part_003"}

\* an entry of seo_keywords as the backend sends it: { keyword, volume }
KeywordObj(keyword, volume) ==
    [kind |-> "object", keyword |-> keyword, volume |-> JNumber(volume)]

Keywords == {"nike", "vintage", "jacket"}
Volumes == {10, 20}
KeywordObjs == {KeywordObj(k, v) : k \in Keywords, v \in Volumes}

\* the parsed body of a 2xx response, as far as the results section reads it
ResultObject(seo, trend) == [kind |-> "object", seo_keywords |-> seo, trend_data |-> trend]

ResultObjects ==
    {ResultObject(seo, trend) :
        seo \in {JUndefined} \cup {JArray(items) : items \in SeqsOf(KeywordObjs, 0, MaxKeywords)},
        trend \in {JUndefined,
                   JArray(<<Point(DateMar, JString("Mar"), JNumber(70), JNumber(20))>>)}}

\* part_003: result.trend_data = Array.isArray(result.trend_data) ? result.trend_data : []
NormalizeTrendData(trend) == IF trend.kind = "array" THEN trend ELSE JArray(<<>>)

\* part_003: kw => typeof kw === 'object' && kw !== null ? kw.keyword : String(kw)
KeywordToString(kw) == IF kw.kind = "object" THEN JString(kw.keyword) ELSE kw

\* part_003: seo_keywords entries become strings when seo_keywords is an array
NormalizeKeywords(seo) ==
    IF seo.kind = "array"
    THEN JArray([i \in 1..Len(seo.items) |-> KeywordToString(seo.items[i])])
    ELSE seo

\* what setAnalysisResult stores for the parsed body r in iteration c
StoredResult(c, r) ==
    IF c = "part_003"
    THEN ResultObject(NormalizeKeywords(r.seo_keywords), NormalizeTrendData(r.trend_data))
    ELSE r

\* the success path of handleAnalyze from the parsed body on
setAnalysisResult ==
    /\ component \in ResultsIterations
    /\ received # NoResult /\ analysisResult = JNull
    /\ analysisResult' = StoredResult(component, received)
    /\ lastEvent' = Event("setAnalysisResult", NoResponse)
    /\ UNCHANGED <<component, appVars, otherVars, loading, error, showCamera, streamRef, created,
                   revoked, cameraPending, blobPending, inflight, requestCount, analyzeActions,
                   renderVars>>

\* the sort key of comparator (a, b) => b.volume - a.volume
VolumeOf(kw) == kw.volume.n

\* the sort key of comparator (a, b) => (b.volume || 0) - (a.volume || 0):
\* a string has no volume property
VolumeOrZero(kw) ==
    IF kw.kind = "object" THEN (IF kw.volume.kind = "number" THEN kw.volume.n ELSE 0) ELSE 0

\* arr.sort(comparator) for a comparator that orders by decreasing key: every
\* element moves behind those with a larger key and those with an equal key that
\* precede it
SortByDecreasing(arr, keys) ==
    LET n == Len(arr)
        pos(i) == 1 + Cardinality({j \in 1..n : keys[j] > keys[i] \/ (keys[j] = keys[i] /\ j < i)})
    IN  [p \in 1..n |-> arr[CHOOSE i \in 1..n : pos(i) = p]]

\* a row of the keyword list: the keyword text and the volume text next to it
Row(keyword, volume) == [keyword |-> keyword, volume |-> volume]
NoVolume == [kind |-> "hidden"]

\* part_000 lines 498-528: a sorted copy, keyword and volume of each entry
KeywordRows000(seo) ==
    IF seo.kind # "array" THEN <<>>
    ELSE LET sorted == SortByDecreasing(seo.items,
                                        [i \in 1..Len(seo.items) |-> VolumeOf(seo.items[i])])
         IN  [i \in 1..Len(sorted) |-> Row(sorted[i].keyword, sorted[i].volume)]

\* part_002 lines 582-584: analysisResult.seo_keywords.sort(...) sorts the stored array
SortedInPlace002(seo) ==
    IF seo.kind = "array" /\ Len(seo.items) > 0
    THEN JArray(SortByDecreasing(seo.items,
                                 [i \in 1..Len(seo.items) |-> VolumeOf(seo.items[i])]))
    ELSE seo

\* part_002 lines 576-617: the rows of the array after the in-place sort
KeywordRows002(seo) ==
    IF seo.kind # "array" THEN <<>>
    ELSE LET sorted == SortedInPlace002(seo).items
         IN  [i \in 1..Len(sorted) |-> Row(sorted[i].keyword, sorted[i].volume)]

\* part_003 lines 639-702: a sorted copy; the volume is shown for objects only
KeywordRows003(seo) ==
    IF seo.kind # "array" THEN <<>>
    ELSE LET sorted == SortByDecreasing(seo.items,
                                        [i \in 1..Len(seo.items) |-> VolumeOrZero(seo.items[i])])
         IN  [i \in 1..Len(sorted) |->
                IF sorted[i].kind = "object"
                THEN Row(sorted[i].keyword,
                         IF VolumeOrZero(sorted[i]) # 0 THEN sorted[i].volume ELSE NoVolume)
                ELSE Row(sorted[i].s, NoVolume)]

KeywordRows(c, seo) ==
    CASE c = "part_000" -> KeywordRows000(seo)
      [] c = "part_002" -> KeywordRows002(seo)
      [] c = "part_003" -> KeywordRows003(seo)

\* the Market Trend panel: part_000 tests trend_data itself before TrendGraph
TrendPanel(c, trend) ==
    IF c = "part_000" /\ (trend.kind # "array" \/ Len(trend.items) = 0)
    THEN [kind |-> "placeholder", text |-> "No trend data available"]
    ELSE TrendGraphRender("part_003/TrendGraph", trend)

\* one render of the results section with the stored analysisResult
renderResults ==
    /\ component \in ResultsIterations
    /\ Truthy(analysisResult)
    /\ rendered' = [kind |-> "results",
                    keywords |-> KeywordRows(component, analysisResult.seo_keywords),
                    trend |-> TrendPanel(component, analysisResult.trend_data)]
    /\ analysisResult' =
          IF component = "part_002"
          THEN [analysisResult EXCEPT !.seo_keywords = SortedInPlace002(@)]
          ELSE analysisResult
    /\ lastEvent' = Event("renderResults", NoResponse)
    /\ UNCHANGED <<component, appVars, otherVars, loading, error, showCamera, streamRef, created,
                   revoked, cameraPending, blobPending, inflight, requestCount, analyzeActions,
                   received, trendData>>

\* a 2xx response has been parsed and is about to be stored
InitResults ==
    /\ component \in ResultsIterations
    /\ env = DefaultEnv
    /\ InitCommon
    /\ received \in ResultObjects
    /\ trendData = JUndefined
    /\ rendered = NotRendered

NextRender ==
    \/ \E td \in TrendDataValues : TrendGraph(td)
    \/ setAnalysisResult
    \/ renderResults

InitRender == InitTrendGraph \/ InitResults
SpecRender == InitRender /\ [][NextRender]_vars

-----------------------------------------------------------------------------
(* Claims *)

\* C1: in App.jsx at most one POST /analyze request is in flight at any time,
\* whatever the user does while the first one is pending
C1_AtMostOneInFlight == component = "App.jsx" => Len(inflight) <= 1

\* a second request is in flight after the first one failed
C1_Witness == component = "App.jsx" /\ Len(inflight) = 1 /\ requestCount = 2

\* the response of the request that just ended was a failure in the sense of C2:
\* a non-2xx status, or a body that is not valid JSON
C2_FailedResponse ==
    /\ lastEvent.op \in {"analyzeImagesCatch", "handleAnalyzeCatch"}
    /\ lastEvent.resp # NoResponse
    /\ ~ResponseOk(lastEvent.resp) \/ JSONParse(lastEvent.resp.text) = JInvalid

\* the message literals of the analyze handler of each iteration
C2_FixedMessages ==
    CASE component = "App.jsx" -> {MsgAnalyze}
      [] component = "part_002" -> {MsgFailedImages, MsgInvalidResponse, MsgDefault}
      [] component = "part_003" ->
            {MsgFailedImages, MsgInvalidFormat, MsgInvalidResponse, MsgDefault}
      [] OTHER -> {}

C3_ThreeCauses ==
    component = "App.jsx" => error \in {ErrNull, MsgInvalidType, MsgAnalyze}

\* C3 amended: in App.jsx the error is null, the message of a failed request or
\* malformed response, or the message of a Take Photo that failed; an empty
\* selection or a capture never sets it
C3_RequestOrCamera ==
    component = "App.jsx" => error \in {ErrNull, MsgAnalyze, MsgCamera}

\* a denied camera left its message
C3_Witness ==
    component = "App.jsx" /\ lastEvent.op = "startCameraDenied" /\ error = MsgCamera

\* C4: no more requests are sent than the user performed analyze-triggering
\* actions: a failed request is not sent again by the program
C4_NoAutomaticRetry == requestCount <= analyzeActions

\* a request failed and nothing was sent since
C4_Witness ==
    /\ lastEvent.op \in {"analyzeImagesCatch", "analyzeImageCatch"}
    /\ requestCount = 1 /\ analyzeActions = 1 /\ inflight = <<>>

\* the multi-image iterations: every one that posts a list of files
C5_MultiImage == component \in {"App.jsx"} \cup FileIterations

\* C5: every request of a multi-image iteration is a POST to /analyze whose body
\* holds one 'files' entry per image selected at the click, in selection order,
\* and nothing else
C5_RequestShape ==
    C5_MultiImage =>
        \A i \in 1..Len(inflight) :
            LET req == inflight[i].req
            IN  /\ req.method = "POST"
                /\ req.path = "/analyze"
                /\ req.body = [k \in 1..Len(req.selection) |-> <<"files", req.selection[k]>>]

\* C6: when getUserMedia grants a stream to Take Photo, the camera view opens
C6_CameraOpens ==
    (component = "App.jsx" /\ lastEvent.op = "startCameraGranted") => showCamera

\* the object URLs of the preview list
C7_Listed == {imageUrls[i] : i \in 1..Len(imageUrls)}

C8_PreviewsMatchFiles ==
    component = "App.jsx" =>
        /\ Len(imageUrls) = Len(selectedImages)
        /\ \A i \in 1..Len(imageUrls) :
              /\ imageUrls[i] \in 1..Len(created)
              /\ created[imageUrls[i]] = selectedImages[i]

\* the first of two different files was removed and another file added after it
C8_Witness ==
    /\ component = "App.jsx"
    /\ revoked = {1}
    /\ selectedImages = <<FilePng, FileJpg>>
    /\ imageUrls = <<2, 3>>

\* C9: every file in selectedFiles, and every file sent in a request, has a MIME
\* type that starts with 'image/'
C9_OnlyImages ==
    component \in FileIterations =>
        /\ \A k \in 1..Len(selectedFiles) : StartsWith(selectedFiles[k].type, ImagePrefix)
        /\ \A i \in 1..Len(inflight) : \A k \in 1..Len(inflight[i].req.body) :
              StartsWith(inflight[i].req.body[k][2].type, ImagePrefix)

\* C10: whichever of its properties a 2xx JSON object lacks, the results view of
\* App.jsx renders it without a runtime error
C10_RendersAnyObject ==
    (component = "App.jsx" /\ ResultsViewShown) => RenderResults(analysisResult) = "rendered"

\* C11: in App.jsx currentImageIndex is a valid index of imageUrls whenever
\* imageUrls is non-empty, and is 0 when imageUrls is empty
C11_IndexValid ==
    component = "App.jsx" =>
        IF Len(imageUrls) = 0 THEN currentImageIndex = 0
        ELSE currentImageIndex \in 0..(Len(imageUrls) - 1)

\* Prev wrapped around from the first image to the last one
C11_Witness ==
    /\ component = "App.jsx"
    /\ lastEvent.op = "handlePrevImage"
    /\ Len(imageUrls) = 2 /\ currentImageIndex = 1

\* C12: when the results view appears after a successful analysis, the preview
\* shows the first selected image: currentImageIndex is 0 and imageUrls[0] is the
\* URL created for selectedImages[0]
C12_FirstImageShown ==
    (Mounted /\ lastEvent.op = "analyzeImagesResult" /\ ResultsViewShown) =>
        /\ currentImageIndex = 0
        /\ created[imageUrls[currentImageIndex + 1]] = selectedImages[1]

\* the results view appears after the first of two selected images was removed
C12_Witness ==
    /\ Mounted /\ lastEvent.op = "analyzeImagesResult" /\ ResultsViewShown
    /\ revoked = {1} /\ imageUrls = <<2>> /\ currentImageIndex = 0

\* C13: in every iteration of TrendGraph the placeholder is rendered if and only if
\* trendData is missing, not an array or an empty array; otherwise a chart is
\* rendered, so no such trendData is passed to the chart
C13_PlaceholderIffNoData ==
    (component \in TrendGraphIterations /\ lastEvent.op = "TrendGraph") =>
        /\ NoTrendData(trendData) <=> rendered = Placeholder
        /\ ~NoTrendData(trendData) <=> rendered.kind = "chart"

\* the keyword list was rendered from a response that holds a seo_keywords array
C14_ListRendered ==
    /\ component \in ResultsIterations
    /\ lastEvent.op = "renderResults"
    /\ received.seo_keywords.kind = "array"

\* the rows are the backend's entries in the order given by the bijection pi
C14_RowsAre(pi) ==
    LET rows == rendered.keywords
        sent == received.seo_keywords.items
    IN  /\ \A i, j \in DOMAIN pi : i # j => pi[i] # pi[j]
        /\ \A i \in DOMAIN pi : rows[i].keyword = sent[pi[i]].keyword
        /\ \A i, j \in DOMAIN pi : i < j => VolumeOf(sent[pi[i]]) >= VolumeOf(sent[pi[j]])

\* C14: the displayed keyword list is a permutation of the seo_keywords the backend
\* returned, in non-increasing order of their volumes
C14_SortedPermutation ==
    C14_ListRendered =>
        LET n == Len(received.seo_keywords.items)
        IN  /\ Len(rendered.keywords) = n
            /\ \E pi \in [1..n -> 1..n] : C14_RowsAre(pi)

\* C15: a render of the results section leaves the stored analysisResult as it was
C15_RenderKeepsState ==
    [][(component \in ResultsIterations /\ lastEvent'.op = "renderResults")
          => analysisResult' = analysisResult]_vars

\* C16: in part_003 every keyword the backend returned with a numeric volume is
\* displayed with exactly that volume, the rows ranked by those volumes
C16_VolumesDisplayed ==
    (C14_ListRendered /\ component = "part_003") =>
        LET n == Len(received.seo_keywords.items)
            rows == rendered.keywords
            sent == received.seo_keywords.items
        IN  /\ Len(rows) = n
            /\ \E pi \in [1..n -> 1..n] :
                  /\ C14_RowsAre(pi)
                  /\ \A i \in 1..n : rows[i].volume = sent[pi[i]].volume

\* the base URL the documentation promises for the build environment e
C17_DocumentedBase(e) ==
    IF e.VITE_API_URL # Undefined THEN e.VITE_API_URL
    ELSE IF e.PROD THEN AppBaseUrl ELSE LocalUrl

\* C17: every analysis request goes to VITE_API_URL when the build sets it, and
\* to the Railway URL (production) or localhost:8000 (development) otherwise
C17_BaseUrlFromEnv ==
    component \in {"App.jsx", "part_003"} =>
        \A i \in 1..Len(inflight) : inflight[i].req.base = C17_DocumentedBase(env)

\* a single-image iteration shows the message of a failed analysis
C18_AnalysisFailed ==
    /\ component = "part_001"
    /\ error = MsgAnalyze /\ ~loading
    /\ requestCount < MaxRequests /\ Len(created) < MaxUrls

\* the user action of the single-image iterations that starts an analysis
C18_UserStartsAnalysis ==
    \E files \in SeqsOf(DropFiles, 1, MaxBatch) : handleImageChangeSingle(files)

\* C18: in the single-image iterations the user can start a new analysis after a
\* failed one
C18_RetryPossible == C18_AnalysisFailed => ENABLED C18_UserStartsAnalysis

\* in the single-image iterations no request is sent and the image is not replaced
\* once an image is selected: no sequence of steps leads from a failed analysis to
\* a new request
C18_NoRequestAfterSelection ==
    [][(component = "part_001" /\ selectedImage # NoFile)
          => (requestCount' = requestCount /\ selectedImage' = selectedImage)]_vars

\* C19: in App.jsx loading is true exactly while an analysis request is in flight
C19_LoadingIffInFlight ==
    component = "App.jsx" => (loading <=> Len(inflight) > 0)

\* the second request of a session is waiting for its body while loading is shown
C19_Witness ==
    /\ component = "App.jsx" /\ loading
    /\ Len(inflight) = 1 /\ inflight[1].stage = "json" /\ requestCount = 2

\* C20: in App.jsx, if the backend call settles, a started request ends with
\* loading false, and when loading becomes false either an error is shown or the
\* result of the response has been stored
C20_HandlerFinishes ==
    /\ (component = "App.jsx" /\ loading) ~> ~loading
    /\ [][(component = "App.jsx" /\ loading /\ ~loading') =>
             \/ error' # ErrNull
             \/ /\ lastEvent'.op = "analyzeImagesResult"
                /\ analysisResult = JNull
                /\ \E text \in AppBodies : analysisResult' = JSONParse(text)]_vars

\* a request ended with its result stored and no error
C20_Witness ==
    /\ component = "App.jsx" /\ lastEvent.op = "analyzeImagesResult"
    /\ ~loading /\ error = ErrNull /\ Truthy(analysisResult) /\ requestCount = 2

\* the step in which a request of App.jsx fails
C21_FailureStep ==
    /\ component = "App.jsx"
    /\ Len(inflight) = 1
    /\ lastEvent'.op = "analyzeImagesCatch"

\* C21 as stated: when a request fails, the selection, the previews, the index and
\* the result are as they were before the request (the selection is the one that
\* was sent), only loading and error change, and Analyze is available again
C21_SelectionAsSent ==
    [][C21_FailureStep =>
          /\ selectedImages' = inflight[1].req.selection
          /\ UNCHANGED <<imageUrls, currentImageIndex, analysisResult>>
          /\ PreviewAreaShown']_vars

\* C21 amended: the step that handles the failure changes only loading and error,
\* and Analyze is available again for the selection on screen, which holds the
\* images that were sent followed by those added while the request was in flight
C21_FailureChangesLoadingAndError ==
    [][C21_FailureStep =>
          /\ UNCHANGED <<selectedImages, imageUrls, currentImageIndex, analysisResult,
                         showCamera, created, revoked>>
          /\ loading /\ ~loading' /\ error' = MsgAnalyze
          /\ analysisResult = JNull
          /\ LET sent == inflight[1].req.selection
             IN  /\ Len(sent) <= Len(selectedImages)
                 /\ SubSeq(selectedImages, 1, Len(sent)) = sent
          /\ PreviewAreaShown']_vars

\* a request failed while two images are selected (the second one may have been
\* added while the request was in flight); Analyze is offered again
C21_Witness ==
    /\ component = "App.jsx" /\ lastEvent.op = "analyzeImagesCatch"
    /\ PreviewAreaShown /\ error = MsgAnalyze
    /\ selectedImages = <<FileJpg, FilePng>> /\ requestCount = 1

\* C22: in App.jsx starting an analysis leaves error null, and when the request
\* succeeds the results are stored with error null, whatever happened meanwhile
C22_SuccessShowsNoError ==
    (component = "App.jsx" /\ lastEvent.op \in {"handleAnalyzeImages", "analyzeImagesResult"})
        => error = ErrNull

C23_NoAnalyzeAfterResult ==
    (component = "App.jsx" /\ analysisResult # JNull) =>
        (~PreviewAreaShown /\ inflight = <<>> /\ ~loading)

====
